---- MODULE Spec2Model ----
(***************************************************************************)
(* State-machine model of the e-mail system: EmailAddress (validation,     *)
(* normalisation, masking), Email (cleaning, short body, prepare) and      *)
(* EmailService / LoggingEmailService (fan-out per recipient, send.log).   *)
(*                                                                         *)
(* A Python str is a sequence of one-character strings.  An Optional value *)
(* is a sequence of length at most one: None is << >>, a present value x   *)
(* is <<x>>.                                                               *)
(***************************************************************************)
EXTENDS Integers, Sequences, FiniteSets, TLC

VARIABLES
    email,        \* the Email object bound to the service (self.email)
    sent_emails,  \* the list returned by the last send_email() call
    valid,        \* the value returned by the last is_valid_fields() call
    log,          \* the lines of send.log
    today,        \* the day date.today() reports
    raw,          \* the string handed to EmailAddress(...)
    addr,         \* the EmailAddress object constructed from raw, if any
    masked_out,   \* the string returned by the last .masked access
    op,           \* the operation performed last
    prev_op,      \* the operation performed before that one
    outcome,      \* "none", "returned" or "raised" for the last operation
    arg,          \* the n given to the last add_short_body() call
    before,       \* the bound Email as it was when the last operation began
    log_before,   \* send.log as it was when the last operation began
    events        \* the copies made ("copy") and the lines written ("write")
                  \* by the last send_email() call, in the order they happened

vars == <<email, sent_emails, valid, log, today, raw, addr, masked_out,
          op, prev_op, outcome, arg, before, log_before, events>>

(***************************************************************************)
(* Bounds of the model.                                                    *)
(***************************************************************************)
MaxText == 3        \* longest free part of a subject or a body
MaxRecipients == 2  \* longest recipients list
MaxLog == 3         \* send.log is not written beyond this many lines
MaxTicks == 1       \* how many times midnight passes
MaxLocal == 2       \* longest free part of a raw address

None == << >>
Some(x) == <<x>>

(***************************************************************************)
(* Strings.                                                                *)
(***************************************************************************)
\* str.isspace() for the characters of the model
Whitespace == {" ", "\t", "\n", "\r"}

\* the strings over chars of length at most n
StringsUpTo(chars, n) == UNION {[1..k -> chars] : k \in 0..n}

\* text.replace(old, new) for one-character old and new
Replace(text, old, new) ==
    [i \in 1..Len(text) |-> IF text[i] = old THEN new ELSE text[i]]

\* text.split(): the maximal runs of non-whitespace characters, in order
RECURSIVE SplitFrom(_, _, _)
SplitFrom(text, i, word) ==
    IF i > Len(text)
    THEN IF word = << >> THEN << >> ELSE <<word>>
    ELSE IF text[i] \in Whitespace
         THEN (IF word = << >> THEN << >> ELSE <<word>>)
              \o SplitFrom(text, i + 1, << >>)
         ELSE SplitFrom(text, i + 1, Append(word, text[i]))

Split(text) == SplitFrom(text, 1, << >>)

\* text.split(sep) for a one-character sep: the pieces between separators
RECURSIVE SplitOnFrom(_, _, _, _)
SplitOnFrom(text, sep, i, piece) ==
    IF i > Len(text)
    THEN <<piece>>
    ELSE IF text[i] = sep
         THEN <<piece>> \o SplitOnFrom(text, sep, i + 1, << >>)
         ELSE SplitOnFrom(text, sep, i + 1, Append(piece, text[i]))

SplitOn(text, sep) == SplitOnFrom(text, sep, 1, << >>)

\* sep.join(words)
RECURSIVE Join(_, _)
Join(sep, words) ==
    IF words = << >> THEN << >>
    ELSE IF Len(words) = 1 THEN words[1]
    ELSE words[1] \o sep \o Join(sep, Tail(words))

\* text[:n]: a negative n counts from the end of text
Prefix(text, n) ==
    LET stop == IF n < 0 THEN Len(text) + n ELSE n
    IN  SubSeq(text, 1, IF stop < Len(text) THEN stop ELSE Len(text))

\* text.endswith(suffix)
EndsWith(text, suffix) ==
    /\ Len(suffix) <= Len(text)
    /\ SubSeq(text, Len(text) - Len(suffix) + 1, Len(text)) = suffix

\* sub in text, for a one-character sub
Contains(text, c) == \E i \in 1..Len(text) : text[i] = c

\* one character of str.lower()
LowerChar(c) ==
    CASE c = "A" -> "a"
      [] c = "B" -> "b"
      [] c = "C" -> "c"
      [] c = "M" -> "m"
      [] c = "N" -> "n"
      [] c = "O" -> "o"
      [] c = "R" -> "r"
      [] c = "T" -> "t"
      [] c = "U" -> "u"
      [] c = "E" -> "e"
      [] OTHER -> c

\* text.lower()
Lower(text) == [i \in 1..Len(text) |-> LowerChar(text[i])]

\* text.strip()
RECURSIVE LStrip(_)
LStrip(text) ==
    IF text # << >> /\ Head(text) \in Whitespace THEN LStrip(Tail(text)) ELSE text

RECURSIVE RStrip(_)
RStrip(text) ==
    IF text # << >> /\ text[Len(text)] \in Whitespace
    THEN RStrip(SubSeq(text, 1, Len(text) - 1))
    ELSE text

Strip(text) == RStrip(LStrip(text))

(***************************************************************************)
(* EmailAddress.                                                           *)
(***************************************************************************)
\* the suffixes _check_correct_email accepts
AllowedSuffixes ==
    { <<".", "c", "o", "m">>, <<".", "r", "u">>, <<".", "n", "e", "t">> }

\* normalize_address without the strip()
normalize_address_no_strip(address) == Lower(address)

normalize_address(address) == Strip(Lower(address))

_check_correct_email(address) ==
    /\ Contains(address, "@")
    /\ \E suffix \in AllowedSuffixes : EndsWith(address, suffix)

\* the local part and the domain unpacked from _address.split("@"): the
\* unpacking into two names succeeds only when there are exactly two pieces
MaskedPieces(address) == SplitOn(address, "@")

MaskedUnpacks(address) == Len(MaskedPieces(address)) = 2

MaskedValue(address) ==
    LET pieces == MaskedPieces(address)
    IN  Prefix(pieces[1], 2) \o <<"*", "*", "*", "@">> \o pieces[2]

\* EmailAddress(address): the object constructed, or the ValueError raised
EmailAddress(address) ==
    LET normalized == normalize_address(address)
    IN  IF ~_check_correct_email(normalized)
        THEN [raised |-> TRUE, object |-> None]
        ELSE [raised |-> FALSE, object |-> Some([_address |-> normalized])]

\* the masked property: the string returned, or the ValueError of the unpacking
masked(self) ==
    IF MaskedUnpacks(self._address)
    THEN [raised |-> FALSE, value |-> Some(MaskedValue(self._address))]
    ELSE [raised |-> TRUE, value |-> None]

(***************************************************************************)
(* Status, clean_text and Email.                                           *)
(***************************************************************************)
DRAFT == "draft"
READY == "ready"
SENT == "sent"
FAILED == "failed"
INVALID == "invalid"

Status == {DRAFT, READY, SENT, FAILED, INVALID}

\* the default of add_short_body's parameter n
DefaultN == 10

\* text.replace("  ", " "): each pair of spaces, left to right, becomes one
RECURSIVE CollapsePairs(_)
CollapsePairs(text) ==
    IF Len(text) < 2 THEN text
    ELSE IF text[1] = " " /\ text[2] = " "
         THEN <<" ">> \o CollapsePairs(SubSeq(text, 3, Len(text)))
         ELSE <<text[1]>> \o CollapsePairs(Tail(text))

\* clean_text collapsing the spaces in one pass rather than by split and join
clean_text_single_pass(text) ==
    Strip(CollapsePairs(Replace(Replace(text, "\n", " "), "\t", " ")))

clean_text(text) ==
    Join(<<" ">>, Split(Replace(Replace(text, "\n", " "), "\t", " ")))

\* isinstance(self.recipients, EmailAddress): the constructor's argument is
\* either one address (is_address, in .address) or a list of them (in .list)
__post_init__(recipients) ==
    IF recipients.is_address THEN <<recipients.address>> ELSE recipients.list

\* Email(subject, body, sender, recipients, status=status)
Email(subject, body, sender, recipients, status) ==
    [subject |-> subject, body |-> body, sender |-> sender,
     recipients |-> __post_init__(recipients),
     date |-> None, short_body |-> None, status |-> status]

get_recipients_str(e) ==
    Join(<<",", " ">>, [i \in 1..Len(e.recipients) |-> e.recipients[i]._address])

clean_data(e) ==
    [e EXCEPT !.subject = clean_text(e.subject), !.body = clean_text(e.body)]

\* add_short_body comparing with < where the source has <=
add_short_body_strict(e, n) ==
    IF e.body = << >>
    THEN [e EXCEPT !.short_body = None]
    ELSE IF Len(e.body) < n
         THEN [e EXCEPT !.short_body = Some(e.body)]
         ELSE [e EXCEPT !.short_body = Some(Prefix(e.body, n) \o <<".", ".", ".">>)]

add_short_body(e, n) ==
    IF e.body = << >>
    THEN [e EXCEPT !.short_body = None]
    ELSE IF Len(e.body) <= n
         THEN [e EXCEPT !.short_body = Some(e.body)]
         ELSE [e EXCEPT !.short_body = Some(Prefix(e.body, n) \o <<".", ".", ".">>)]

\* bool(self.subject and self.body): a str is true when it is not empty
is_valid_fields(e) == e.subject # << >> /\ e.body # << >>

\* the condition of prepare(): subject, body, sender and recipients all true
PrepareCondition(e) ==
    /\ e.subject # << >>
    /\ e.body # << >>
    /\ e.sender # None
    /\ e.recipients # << >>

\* prepare deciding the status before it cleans the texts
prepare_check_before_clean(e) ==
    LET decided == [e EXCEPT !.status =
                        IF PrepareCondition(e) THEN READY ELSE INVALID]
    IN  add_short_body(clean_data(decided), DefaultN)

prepare(e) ==
    LET cleaned == clean_data(e)
        decided == [cleaned EXCEPT !.status =
                        IF PrepareCondition(cleaned) THEN READY ELSE INVALID]
    IN  add_short_body(decided, DefaultN)

(***************************************************************************)
(* EmailService and LoggingEmailService.                                   *)
(***************************************************************************)
\* date.today().strftime("%Y-%m-%d") on day d of the month
Digit(k) == CASE k = 0 -> "0" [] k = 1 -> "1" [] k = 2 -> "2" [] k = 3 -> "3"
              [] k = 4 -> "4" [] k = 5 -> "5" [] k = 6 -> "6" [] k = 7 -> "7"
              [] k = 8 -> "8" [] k = 9 -> "9"

add_send_date(d) ==
    <<"2", "0", "2", "6", "-", "1", "1", "-", Digit(d \div 10), Digit(d % 10)>>

\* new_email = self.email: no copy is made
deepcopy_alias(heap, ref) == [heap |-> heap, ref |-> ref]

\* copy.deepcopy(heap[ref]): a new object on the heap, equal to the old one
deepcopy(heap, ref) == [heap |-> Append(heap, heap[ref]), ref |-> Len(heap) + 1]

\* the test for READY written as "anything not yet refused"
DeliveryStatusLax(status) == IF status \in {READY, DRAFT} THEN SENT ELSE FAILED

\* the status of a copy, from the status of the bound message
DeliveryStatus(status) == IF status = READY THEN SENT ELSE FAILED

\* the body of the for loop of send_email, from the i-th recipient on; heap
\* holds the objects, self_email is the reference self.email, recipients the
\* list the loop iterates, days the day each copy reads from the clock
RECURSIVE SendLoop(_, _, _, _, _, _)
SendLoop(heap, self_email, recipients, days, i, sent) ==
    IF i > Len(recipients)
    THEN [heap |-> heap, sent |-> sent]
    ELSE LET made == deepcopy(heap, self_email)
             new_email == made.ref
             h1 == [made.heap EXCEPT ![new_email].recipients = <<recipients[i]>>]
             h2 == [h1 EXCEPT ![new_email].date = Some(add_send_date(days[i]))]
             h3 == [h2 EXCEPT ![new_email].status =
                        DeliveryStatus(h2[self_email].status)]
         IN  SendLoop(h3, self_email, recipients, days, i + 1,
                      Append(sent, new_email))

\* send_email whose loop stops one recipient early
send_email_short_loop(e, days) ==
    IF e.recipients = << >>
    THEN [email |-> e, sent |-> << >>, events |-> << >>]
    ELSE LET done == SendLoop(<<e>>, 1, SubSeq(e.recipients, 1, Len(e.recipients) - 1),
                              days, 1, << >>)
         IN  [email |-> done.heap[1],
              sent |-> [i \in 1..Len(done.sent) |-> done.heap[done.sent[i]]],
              events |-> [i \in 1..Len(done.sent) |-> "copy"]]

\* send_email marking a message without recipients as FAILED
send_email_failing_empty(e, days) ==
    IF e.recipients = << >>
    THEN [email |-> [e EXCEPT !.status = FAILED], sent |-> << >>, events |-> << >>]
    ELSE LET done == SendLoop(<<e>>, 1, e.recipients, days, 1, << >>)
         IN  [email |-> done.heap[1],
              sent |-> [i \in 1..Len(done.sent) |-> done.heap[done.sent[i]]],
              events |-> [i \in 1..Len(done.sent) |-> "copy"]]

\* EmailService.send_email(): the bound message afterwards and the returned list
send_email(e, days) ==
    IF e.recipients = << >>
    THEN [email |-> e, sent |-> << >>, events |-> << >>]
    ELSE LET done == SendLoop(<<e>>, 1, e.recipients, days, 1, << >>)
         IN  [email |-> done.heap[1],
              sent |-> [i \in 1..Len(done.sent) |-> done.heap[done.sent[i]]],
              events |-> [i \in 1..Len(done.sent) |-> "copy"]]

\* one line of send.log, as its literal and interpolated parts in order; the
\* source's Cyrillic labels are written in Latin letters (Ot, Komu, Tema)
LogLine(e) ==
    <<"[", e.date[1], "] Status: ", e.status, ", Ot: ", e.sender[1]._address,
      ", Komu: ", get_recipients_str(e), ", Tema: ", e.subject, "\n">>

\* the loop writing the lines: evaluating a line of a message without a
\* sender raises (None has no attribute address) and ends the loop
RECURSIVE WriteLines(_, _, _)
WriteLines(file, emails, i) ==
    IF i > Len(emails)
    THEN [file |-> file, raised |-> FALSE]
    ELSE IF emails[i].sender = None
         THEN [file |-> file, raised |-> TRUE]
         ELSE WriteLines(Append(file, LogLine(emails[i])), emails, i + 1)

\* send.log opened with mode "w": the lines already there are lost
logging_send_email_truncating(e, days, file) ==
    LET base == send_email(e, days)
        written == WriteLines(<< >>, base.sent, 1)
    IN  [email |-> base.email, sent |-> base.sent,
         file |-> written.file, raised |-> written.raised,
         events |-> base.events \o [i \in 1..Len(written.file) |-> "write"]]

\* LoggingEmailService.send_email()
logging_send_email(e, days, file) ==
    LET base == send_email(e, days)
        written == WriteLines(file, base.sent, 1)
    IN  [email |-> base.email, sent |-> base.sent,
         file |-> written.file, raised |-> written.raised,
         events |-> base.events
                    \o [i \in 1..(Len(written.file) - Len(file)) |-> "write"]]

(***************************************************************************)
(* Inputs.                                                                 *)
(***************************************************************************)
\* the raw strings the addresses of the messages are made from
SampleRaws ==
    { <<"A", "@", "a", ".", "r", "u">>, <<" ", "b", "@", "b", ".", "c", "o", "m">> }

Addresses == {EmailAddress(r).object[1] : r \in {x \in SampleRaws : ~EmailAddress(x).raised}}

SenderAddress == CHOOSE a \in Addresses : a._address[1] = "a"

Senders == {None, Some(SenderAddress)}

\* the recipients argument of the constructor: one address, or a list of
\* at most n
RecipientArgs(n) ==
    {[is_address |-> TRUE, address |-> a, list |-> << >>] : a \in Addresses}
    \cup {[is_address |-> FALSE, address |-> SenderAddress, list |-> l] :
            l \in StringsUpTo(Addresses, n)}

\* sender and recipients of the messages whose texts vary
Parties ==
    { <<Some(SenderAddress), [is_address |-> TRUE, address |-> SenderAddress, list |-> << >>]>>,
      <<None, [is_address |-> TRUE, address |-> SenderAddress, list |-> << >>]>>,
      <<Some(SenderAddress), [is_address |-> FALSE, address |-> SenderAddress, list |-> << >>]>> }

TextChars == {"a", " ", "\t", "\n"}

\* texts of the tests: "  Hello   world  " and " Test   body\nwith   spaces "
SampleTexts ==
    { <<" ", " ", "H", " ", " ", " ", "w", " ", " ">>,
      <<" ", "T", " ", " ", " ", "b", "\n", "w", " ", " ", " ", "s", " ">> }

Texts == StringsUpTo(TextChars, MaxText) \cup SampleTexts

FewTexts == { << >>, <<"\t", " ">>, <<"S">>, <<" ", "B", "\n", "\n", "b">> }

\* ten characters, so that a body can reach and pass the default short length
Filler == <<"b", "o", "d", "y", " ", "t", "e", "x", "t", "s">>

Bodies == Texts \cup {t \o Filler : t \in StringsUpTo(TextChars, 1)}

\* subject and body: each takes every text while the other takes a few
TextPairs == (Texts \X FewTexts) \cup (FewTexts \X Bodies)

\* subject and body of the messages the service is bound to
ServiceTexts ==
    { << <<" ", "H", "i", "\n">>, <<"M", "s", "g">> >>,
      << << >>, <<"M", "s", "g">> >> }

ServiceRaws == { <<"U", "s", "@", "m", ".", "N", "E", "T", " ">> }

RawChars == {"a", "B", "@", " "}

RawSuffixes ==
    { << >>, <<".", "c", "o", "m">>, <<".", "r", "u">>, <<".", "n", "e", "t">>,
      <<".", "C", "O", "M">>, <<".", "R", "u">>, <<".", "o", "r", "g">>,
      <<".", "c", "o">>, <<"c", "o", "m">>, <<".", "r", "u", ".">> }

RawPads == { << >>, <<" ">>, <<"\t", "\n">> }

RawInputs ==
    {free \o suffix \o pad :
        free \in StringsUpTo(RawChars, MaxLocal), suffix \in RawSuffixes, pad \in RawPads}

FirstDay == 9
LastDay == FirstDay + MaxTicks

\* a line an earlier run left in send.log
OldLine ==
    <<"[", <<"2", "0", "2", "6", "-", "1", "1", "-", "0", "8">>, "] Status: ", FAILED,
      ", Ot: ", SenderAddress._address, ", Komu: ", SenderAddress._address,
      ", Tema: ", <<"O", "l", "d">>, "\n">>

\* the days the k readings of the clock in one call can give, from day d on
ClockReadings(d, k) ==
    {days \in [1..k -> d..LastDay] : \A i \in 1..k : \A j \in i..k : days[i] <= days[j]}

\* the values of n: any int is taken, the lengths of the bodies and beyond
ShortLengths == ((-2)..(MaxText + 1)) \cup {DefaultN}

(***************************************************************************)
(* Initial states.                                                         *)
(***************************************************************************)
InitRest ==
    /\ sent_emails = << >>
    /\ valid = FALSE
    /\ log_before = log
    /\ events = << >>
    /\ today = FirstDay
    /\ addr = None
    /\ masked_out = None
    /\ op = "init"
    /\ prev_op = "init"
    /\ outcome = "none"
    /\ arg = 0
    /\ before = email

\* the service's view: every status, sender and recipients list, a few texts
Init ==
    /\ email \in {Email(t[1], t[2], f, r, st) :
                    t \in ServiceTexts, f \in Senders,
                    r \in RecipientArgs(MaxRecipients), st \in Status}
    /\ raw \in ServiceRaws
    /\ log \in { << >>, <<OldLine>> }
    /\ InitRest

\* the message's view: every text, few recipients
InitMessage ==
    /\ email \in {Email(t[1], t[2], p[1], p[2], st) :
                    t \in TextPairs, p \in Parties, st \in Status}
    /\ raw \in ServiceRaws
    /\ log = << >>
    /\ InitRest

\* the short body's view: every body, one subject, sender and recipient
InitShort ==
    /\ email \in {Email(<<"S">>, b, Some(SenderAddress),
                          [is_address |-> TRUE, address |-> SenderAddress, list |-> << >>],
                          DRAFT) : b \in Bodies}
    /\ raw \in ServiceRaws
    /\ log = << >>
    /\ InitRest

\* the address's view: every raw string, one message
InitAddress ==
    /\ email = Email(<<"H", "i">>, <<"M", "s", "g">>, Some(SenderAddress),
                     [is_address |-> TRUE, address |-> SenderAddress, list |-> << >>],
                     DRAFT)
    /\ raw \in RawInputs
    /\ log = << >>
    /\ InitRest

(***************************************************************************)
(* Actions.                                                                *)
(***************************************************************************)
\* how a call that makes no copy and writes no line ended
Returned == [outcome |-> "returned", events |-> << >>]
Raised == [outcome |-> "raised", events |-> << >>]

\* the record of the call just made
Called(name, result) ==
    /\ op' = name
    /\ prev_op' = op
    /\ outcome' = result.outcome
    /\ before' = email
    /\ log_before' = log
    /\ events' = result.events

Prepare ==
    /\ email' = prepare(email)
    /\ Called("prepare", Returned)
    /\ arg' = 0
    /\ UNCHANGED <<sent_emails, valid, log, today, raw, addr, masked_out>>

CleanData ==
    /\ email' = clean_data(email)
    /\ Called("clean_data", Returned)
    /\ arg' = 0
    /\ UNCHANGED <<sent_emails, valid, log, today, raw, addr, masked_out>>

AddShortBody ==
    \E n \in ShortLengths :
        /\ email' = add_short_body(email, n)
        /\ Called("add_short_body", Returned)
        /\ arg' = n
        /\ UNCHANGED <<sent_emails, valid, log, today, raw, addr, masked_out>>

IsValidFields ==
    /\ valid' = is_valid_fields(email)
    /\ Called("is_valid_fields", Returned)
    /\ arg' = 0
    /\ UNCHANGED <<email, sent_emails, log, today, raw, addr, masked_out>>

SendEmail ==
    \E days \in ClockReadings(today, Len(email.recipients)) :
        LET done == send_email(email, days)
        IN  /\ email' = done.email
            /\ sent_emails' = done.sent
            /\ today' = IF days = << >> THEN today ELSE days[Len(days)]
            /\ Called("send_email", [outcome |-> "returned", events |-> done.events])
            /\ arg' = 0
            /\ UNCHANGED <<valid, log, raw, addr, masked_out>>

LoggingSendEmail ==
    /\ Len(log) + Len(email.recipients) <= MaxLog
    /\ \E days \in ClockReadings(today, Len(email.recipients)) :
        LET done == logging_send_email(email, days, log)
        IN  /\ email' = done.email
            /\ log' = done.file
            /\ sent_emails' = IF done.raised THEN << >> ELSE done.sent
            /\ today' = IF days = << >> THEN today ELSE days[Len(days)]
            /\ Called("logging_send_email",
                      [outcome |-> IF done.raised THEN "raised" ELSE "returned",
                       events |-> done.events])
            /\ arg' = 0
            /\ UNCHANGED <<valid, raw, addr, masked_out>>

\* midnight passes between two calls
Tick ==
    /\ today < LastDay
    /\ today' = today + 1
    /\ UNCHANGED <<email, sent_emails, valid, log, raw, addr, masked_out,
                   op, prev_op, outcome, arg, before, log_before, events>>

NewEmailAddress ==
    LET made == EmailAddress(raw)
    IN  /\ addr' = made.object
        /\ Called("EmailAddress", IF made.raised THEN Raised ELSE Returned)
        /\ arg' = 0
        /\ UNCHANGED <<email, sent_emails, valid, log, today, raw, masked_out>>

Masked ==
    /\ addr # None
    /\ LET got == masked(addr[1])
       IN  /\ masked_out' = got.value
           /\ Called("masked", IF got.raised THEN Raised ELSE Returned)
    /\ arg' = 0
    /\ UNCHANGED <<email, sent_emails, valid, log, today, raw, addr>>

NextMessage == Prepare \/ CleanData \/ IsValidFields

NextShort == AddShortBody \/ CleanData

NextService == Prepare \/ SendEmail \/ LoggingSendEmail \/ Tick

NextAddress == NewEmailAddress \/ Masked

\* the service and the message it is bound to
Spec == Init /\ [][NextService]_vars

SpecMessage == InitMessage /\ [][NextMessage]_vars

SpecShort == InitShort /\ [][NextShort]_vars

SpecAddress == InitAddress /\ [][NextAddress]_vars

(***************************************************************************)
(* Properties of the service (checked under Spec).                         *)
(***************************************************************************)
SendOps == {"send_email", "logging_send_email"}

\* C1: send_email() never mutates the bound message: after the call its
\* subject, body, sender, recipients, short_body, date and status are what
\* they were before the call, whatever the status and the recipients and
\* however many calls were made.
C1_SendLeavesMessage ==
    op \in SendOps =>
        /\ email.subject = before.subject
        /\ email.body = before.body
        /\ email.sender = before.sender
        /\ email.recipients = before.recipients
        /\ email.short_body = before.short_body
        /\ email.date = before.date
        /\ email.status = before.status

\* a second send_email() in a row of a READY message with two recipients or
\* more: copies dated and SENT, the bound message still undated and READY
C1_Witness ==
    /\ op = "send_email"
    /\ prev_op = "send_email"
    /\ Len(sent_emails) >= 2
    /\ sent_emails[1].date # None
    /\ sent_emails[1].status = SENT
    /\ before.status = READY
    /\ email.status = READY
    /\ email.date = None

\* C2: for recipients [r1..rk], k >= 1, send_email() returns k messages; the
\* i-th has the one recipient ri, a date, and the subject, body and sender of
\* the bound message.
C2_OneCopyPerRecipient ==
    (op = "send_email" /\ before.recipients # << >>) =>
        /\ Len(sent_emails) = Len(before.recipients)
        /\ \A i \in 1..Len(sent_emails) :
            /\ Len(sent_emails[i].recipients) = 1
            /\ sent_emails[i].recipients[1] = before.recipients[i]
            /\ sent_emails[i].date # None
            /\ sent_emails[i].subject = before.subject
            /\ sent_emails[i].body = before.body
            /\ sent_emails[i].sender = before.sender

\* two copies or more, for recipients that differ
C2_Witness ==
    /\ op = "send_email"
    /\ Len(sent_emails) >= 2
    /\ Len(sent_emails) = Len(before.recipients)
    /\ sent_emails[1].recipients # sent_emails[2].recipients

\* C3: every message send_email() returns is SENT when the bound message is
\* READY at the time of the call and FAILED for every other status; this also
\* when the message was prepared after the service was bound to it.
C3_StatusOfCopies ==
    op \in SendOps =>
        \A i \in 1..Len(sent_emails) :
            /\ before.status = READY => sent_emails[i].status = SENT
            /\ before.status # READY => sent_emails[i].status = FAILED

\* a message prepared to READY and then sent: its copies are SENT
C3_Witness ==
    /\ op = "send_email"
    /\ prev_op = "prepare"
    /\ before.status = READY
    /\ Len(sent_emails) >= 2
    /\ \A i \in 1..Len(sent_emails) : sent_emails[i].status = SENT

\* C4: with no recipients send_email(), of either service, returns an empty
\* list without raising, whatever the status; it sets no date, changes no
\* status and writes no line to the log.
C4_NoRecipients ==
    (op \in SendOps /\ before.recipients = << >>) =>
        /\ outcome = "returned"
        /\ sent_emails = << >>
        /\ email.date = before.date
        /\ email.status = before.status
        /\ log = log_before
        /\ events = << >>

\* the logging service called on a READY message without recipients and
\* without a sender, the log holding a line already
C4_Witness ==
    /\ op = "logging_send_email"
    /\ before.recipients = << >>
    /\ before.sender = None
    /\ before.status = READY
    /\ log = <<OldLine>>
    /\ sent_emails = << >>

C5_PrepareStatus ==
    op = "prepare" =>
        /\ outcome = "returned"
        /\ email.status \in {READY, INVALID}
        /\ email.status = READY <=>
            /\ \E i \in 1..Len(before.subject) : before.subject[i] \notin Whitespace
            /\ \E i \in 1..Len(before.body) : before.body[i] \notin Whitespace
            /\ before.sender # None
            /\ before.recipients # << >>

\* a SENT message whose subject is whitespace only, all else in place,
\* prepared: INVALID
C5_Witness ==
    /\ op = "prepare"
    /\ before.status = SENT
    /\ before.subject # << >>
    /\ \A i \in 1..Len(before.subject) : before.subject[i] \in Whitespace
    /\ \E i \in 1..Len(before.body) : before.body[i] \notin Whitespace
    /\ before.sender # None
    /\ before.recipients # << >>
    /\ email.status = INVALID

\* C6: prepare() is idempotent: a second prepare() right after a first
\* leaves subject, body, status, short_body, sender, recipients and date as
\* the first left them.
C6_PrepareIdempotent ==
    (op = "prepare" /\ prev_op = "prepare") =>
        /\ email.subject = before.subject
        /\ email.body = before.body
        /\ email.status = before.status
        /\ email.short_body = before.short_body
        /\ email.sender = before.sender
        /\ email.recipients = before.recipients
        /\ email.date = before.date

\* prepared twice in a row: READY, the subject of several words, the body
\* cut to its short form
C6_Witness ==
    /\ op = "prepare"
    /\ prev_op = "prepare"
    /\ email.status = READY
    /\ Len(Split(email.subject)) >= 2
    /\ email.short_body # None
    /\ Len(email.body) > DefaultN

\* C7: is_valid_fields() is true exactly when the subject is not empty
\* after trimming and the body is not empty after trimming, on the values as
\* they are at the call, and it does not change the message.
C7_IsValidTrims ==
    op = "is_valid_fields" =>
        /\ valid <=> (Strip(before.subject) # << >> /\ Strip(before.body) # << >>)
        /\ email = before

(***************************************************************************)
(* Properties of the address (checked under SpecAddress).                  *)
(***************************************************************************)
\* C8: for every address the constructor accepts, masked returns, without
\* an error, the first two characters of the local part (fewer when it is
\* shorter), then "***@", then the domain; also with more than one "@".
C8_MaskedForm ==
    op = "masked" =>
        /\ outcome = "returned"
        /\ masked_out # None
        /\ \E k \in 1..Len(addr[1]._address) :
            /\ addr[1]._address[k] = "@"
            /\ masked_out[1] =
                    Prefix(SubSeq(addr[1]._address, 1, k - 1), 2)
                    \o <<"*", "*", "*", "@">>
                    \o SubSeq(addr[1]._address, k + 1, Len(addr[1]._address))

\* C9: EmailAddress(raw) succeeds exactly when raw, lower-cased and trimmed,
\* contains "@" and ends with ".com", ".ru" or ".net"; the address is then
\* raw.lower().strip(); otherwise the construction raises and there is no
\* object.  Every address that exists contains "@" and ends as allowed.
C9_Construction ==
    LET wanted == Strip(Lower(raw))
        accepted ==
            /\ \E i \in 1..Len(wanted) : wanted[i] = "@"
            /\ \/ EndsWith(wanted, <<".", "c", "o", "m">>)
               \/ EndsWith(wanted, <<".", "r", "u">>)
               \/ EndsWith(wanted, <<".", "n", "e", "t">>)
    IN  /\ op = "EmailAddress" =>
            /\ outcome = "returned" <=> accepted
            /\ outcome = "raised" <=> ~accepted
            /\ outcome = "returned" => addr = Some([_address |-> wanted])
            /\ outcome = "raised" => addr = None
        /\ addr # None =>
            /\ \E i \in 1..Len(addr[1]._address) : addr[1]._address[i] = "@"
            /\ \E suffix \in AllowedSuffixes : EndsWith(addr[1]._address, suffix)

\* an address accepted from a raw string in upper case with whitespace
\* around it
C9_Witness ==
    /\ op = "EmailAddress"
    /\ outcome = "returned"
    /\ addr # None
    /\ Len(addr[1]._address) < Len(raw)
    /\ Lower(raw) # raw

(***************************************************************************)
(* Properties of the short body (checked under SpecShort).                 *)
(***************************************************************************)
\* C11 as stated, for every n: add_short_body(n) sets short_body to none
\* when the body is empty, to the body when 1 <= len(body) <= n, and to the
\* first n characters of the body followed by "..." when len(body) > n; a
\* body of length n never gets the ellipsis, a body of length n + 1 always
\* does; no other field changes.  (The empty body is read as the first case
\* only; a negative n has no first n characters, so the cut is "..." alone.)
C11_ShortBodyAnyN ==
    op = "add_short_body" =>
        LET body == before.body
            cut == [i \in 1..arg |-> body[i]] \o <<".", ".", ".">>
        IN  /\ body = << >> => email.short_body = None
            /\ (1 <= Len(body) /\ Len(body) <= arg) => email.short_body = Some(body)
            /\ (body # << >> /\ Len(body) > arg) => email.short_body = Some(cut)
            /\ Len(body) = arg => email.short_body \in {None, Some(body)}
            /\ (body # << >> /\ Len(body) = arg + 1) =>
                    /\ email.short_body # None
                    /\ EndsWith(email.short_body[1], <<".", ".", ".">>)
            /\ email = [before EXCEPT !.short_body = email.short_body]

\* C11, for n >= 0: add_short_body(n) sets short_body to none when the body
\* is empty, to the body when 1 <= len(body) <= n, and to the first n
\* characters of the body followed by "..." when len(body) > n; a body of
\* length n never gets the ellipsis, a body of length n + 1 always does; no
\* other field changes.
C11_ShortBody ==
    (op = "add_short_body" /\ arg >= 0) =>
        LET body == before.body
            cut == [i \in 1..arg |-> body[i]] \o <<".", ".", ".">>
        IN  /\ body = << >> => email.short_body = None
            /\ (1 <= Len(body) /\ Len(body) <= arg) => email.short_body = Some(body)
            /\ Len(body) > arg => email.short_body = Some(cut)
            /\ Len(body) = arg => email.short_body \in {None, Some(body)}
            /\ Len(body) = arg + 1 =>
                    /\ email.short_body # None
                    /\ EndsWith(email.short_body[1], <<".", ".", ".">>)
            /\ email = [before EXCEPT !.short_body = email.short_body]

\* a body one character longer than n, n >= 1, cut to n characters and the
\* ellipsis, where the short body held the whole body before
C11_Witness ==
    /\ op = "add_short_body"
    /\ arg >= 1
    /\ Len(before.body) = arg + 1
    /\ before.short_body = Some(before.body)
    /\ email.short_body # None
    /\ Len(email.short_body[1]) = arg + 3
    /\ SubSeq(email.short_body[1], 1, arg) = SubSeq(before.body, 1, arg)

====
